---- MODULE Spec2Model ----
(***************************************************************************)
(* nano-ecs: the EntityManager (tag index, component groups, entity pool)  *)
(* and the Entity handle, as a state machine.  Every manager method is an  *)
(* operator from the manager's state to the state it leaves, so that a     *)
(* method calling other methods is their composition; every public call is *)
(* one action.  A call that raises leaves whatever the code had written    *)
(* before the throw.                                                       *)
(*                                                                         *)
(* Spec          the public calls, made one after the other                *)
(* SpecNoted     the calls that notify, with the last notification of      *)
(*               every entity and component type remembered                *)
(* SpecListen    Spec with applications subscribing to entities            *)
(* SpecArrays    component and query calls with callers that change the    *)
(*               contents of an array they query with                      *)
(* SpecReentrant the calls with listeners that call back into the manager  *)
(*               while they are notified                                   *)
(* SpecManagers  createEntity and removeEntity on two managers of one      *)
(*               process                                                   *)
(* In all but SpecReentrant listeners do not call back into the manager.   *)
(***************************************************************************)
EXTENDS Integers, Sequences, FiniteSets, TLC

\* Entity objects the pool's factory may construct.
MaxInst == 2
\* Groups the manager may index.
MaxGroups == 2
\* The entities constructed by the application with re-entrant listeners.
MaxReentrant == 1
\* Entity objects the factories of two managers may construct together.
MaxShared == 3

\* Component types (constructor functions).  Anon is a function without a name.
ComponentTypes == {"Position", "HitBox", "Anon"}
\* Tags.
Tags == {"player", "enemy"}
\* What the callers put in the arrays they pass to queryComponents.
ArrayLiterals ==
    <<  <<>>, <<"Position">>, <<"HitBox">>,
        <<"Position", "HitBox">>, <<"HitBox", "Position">>  >>
\* The array objects, by identity.
ArrayIds == DOMAIN ArrayLiterals

\* The applications driving the manager: the component types an application
\* attaches, the tags it uses, the arrays it queries with, and whether its
\* component constructors can throw.
Apps ==
    {  [types |-> {"Position"}, tags |-> {"player", "enemy"},
        arrays |-> {1, 2}, throws |-> {FALSE}],
       [types |-> {"Position", "HitBox"}, tags |-> {"player"},
        arrays |-> ArrayIds, throws |-> {FALSE}],
       [types |-> {"Position", "Anon"}, tags |-> {"player"},
        arrays |-> {1, 2}, throws |-> {FALSE, TRUE}]  }

VARIABLES
    nextId,       \* Entity.js: the module-level id counter
    ent,          \* the Entity objects constructed so far, by instance number
    entities,     \* EntityManager._entities
    tags,         \* EntityManager._tags: tag -> list of entities
    groups,       \* EntityManager._groups: group key -> Group
    groupKeyMap,  \* EntityManager._groupKeyMap: array object -> cached key
    pool,         \* EntityManager._entityPool: the recycled Entity objects
    options,      \* EntityManager._options
    arr,          \* the callers' array objects: array id -> contents
    app,          \* the application driving the manager
    notes,        \* the last notification emitted per entity and component type
    second        \* a second EntityManager of the same process

vars == <<nextId, ent, entities, tags, groups, groupKeyMap, pool, options,
          arr, app, notes, second>>

----------------------------------------------------------------------------
\* Array primitives of the host language.

\* Array.prototype.indexOf, 1-based; 0 stands for -1.
RECURSIVE indexFrom(_, _, _)
indexFrom(s, x, i) ==
    IF i > Len(s) THEN 0
    ELSE IF s[i] = x THEN i
    ELSE indexFrom(s, x, i + 1)

indexOf(s, x) == indexFrom(s, x, 1)

\* Array.prototype.splice(i, 1) at a 1-based index.
splice(s, i) == [k \in 1..(Len(s) - 1) |-> IF k < i THEN s[k] ELSE s[k + 1]]

\* Array.prototype.splice(n, 1) where n is the result of an indexOf: a miss
\* (-1) counts from the end and removes the last element.
spliceAtIndexOf(s, x) ==
    IF indexOf(s, x) > 0 THEN splice(s, indexOf(s, x))
    ELSE IF Len(s) > 0 THEN splice(s, Len(s))
    ELSE s

Range(s) == {s[i] : i \in 1..Len(s)}

----------------------------------------------------------------------------
\* Names.

\* typedef.getName: the function's name; empty for a function without one.
getName(T) == IF T = "Anon" THEN "" ELSE T

\* String.prototype.toLowerCase on the names in use.
toLowerCase(s) ==
    CASE s = "Position" -> "position"
      [] s = "HitBox"   -> "hitbox"
      [] OTHER          -> s

\* name.charAt(0).toLowerCase() + name.slice(1)
lowerFirst(s) ==
    CASE s = "Position" -> "position"
      [] s = "HitBox"   -> "hitBox"
      [] OTHER          -> s

\* The default comparison of Array.prototype.sort: by code units.
codeUnitRank(s) ==
    CASE s = ""         -> 0
      [] s = "HitBox"   -> 1
      [] s = "Position" -> 2
      [] s = "hitbox"   -> 3
      [] s = "position" -> 4

RECURSIVE insertSorted(_, _)
insertSorted(s, x) ==
    IF s = <<>> THEN <<x>>
    ELSE IF codeUnitRank(x) < codeUnitRank(Head(s)) THEN <<x>> \o s
    ELSE <<Head(s)>> \o insertSorted(Tail(s), x)

\* sort left out: the names stay in the order of the array.
sort_unsorted(s) == s

RECURSIVE sort(_)
sort(s) == IF s = <<>> THEN <<>> ELSE insertSorted(sort(Tail(s)), Head(s))

RECURSIVE join(_, _)
join(s, sep) ==
    IF s = <<>> THEN ""
    ELSE IF Len(s) = 1 THEN s[1]
    ELSE s[1] \o sep \o join(Tail(s), sep)

componentPropertyNameThrows(Component) == getName(Component) = ""

componentPropertyName(Component, camelCase) ==
    IF ~camelCase THEN getName(Component) ELSE lowerFirst(getName(Component))

----------------------------------------------------------------------------
\* Entity.

\* new Entity() with the id the counter hands out.
NewEntity(i) ==
    [id |-> i, manager |-> FALSE, Components |-> <<>>, tags |-> <<>>,
     props |-> {}, listeners |-> FALSE]

hasComponent(entity, component) == indexOf(entity.Components, component) > 0

hasAllComponents(entity, components) ==
    \A i \in 1..Len(components) : hasComponent(entity, components[i])

hasTag(entity, tag) == indexOf(entity.tags, tag) > 0

----------------------------------------------------------------------------
\* The manager's state as one record, so that a call that makes other calls
\* is the composition of their effects.

Here ==
    [nextId |-> nextId, ent |-> ent, entities |-> entities, tags |-> tags,
     groups |-> groups, groupKeyMap |-> groupKeyMap, pool |-> pool,
     events |-> <<>>, raised |-> FALSE]

raise(M) == [M EXCEPT !.raised = TRUE]

\* What a listener of entity e can observe at the moment it is notified.
Observed(M, e) ==
    [Components |-> M.ent[e].Components,
     props      |-> M.ent[e].props,
     groups     |-> {k \in DOMAIN M.groups : indexOf(M.groups[k].entities, e) > 0},
     live       |-> indexOf(M.entities, e) > 0,
     listeners  |-> M.ent[e].listeners]

\* EventEmitter.emit: the notification is recorded whether or not anyone
\* listens, with what a listener observes at that moment.
emit(M, e, kind, component) ==
    [M EXCEPT !.events = Append(@, [kind |-> kind, entity |-> e,
                                    component |-> component,
                                    seen |-> Observed(M, e)])]

\* Group.Components is the caller's array object.
GroupComponents(g) == arr[g.Components]

----------------------------------------------------------------------------
\* EntityManager: tags.

\* entityAddTag without the early return for an entity that is already there.
entityAddTag_again(M, e, tag) ==
    LET M1 == IF tag \in DOMAIN M.tags THEN M
              ELSE [M EXCEPT !.tags = (tag :> <<>>) @@ @]
    IN  [M1 EXCEPT !.tags[tag] = Append(@, e),
                   !.ent[e].tags = Append(@, tag)]

entityAddTag(M, e, tag) ==
    LET M1 == IF tag \in DOMAIN M.tags THEN M
              ELSE [M EXCEPT !.tags = (tag :> <<>>) @@ @]
    IN  IF indexOf(M1.tags[tag], e) > 0 THEN M1
        ELSE [M1 EXCEPT !.tags[tag] = Append(@, e),
                        !.ent[e].tags = Append(@, tag)]

\* entityRemoveTag without the early return for an entity that is not listed.
entityRemoveTag_unchecked(M, e, tag) ==
    IF tag \notin DOMAIN M.tags THEN M
    ELSE [M EXCEPT !.tags[tag] = spliceAtIndexOf(@, e),
                   !.ent[e].tags = spliceAtIndexOf(@, tag)]

entityRemoveTag(M, e, tag) ==
    IF tag \notin DOMAIN M.tags THEN M
    ELSE IF indexOf(M.tags[tag], e) = 0 THEN M
    ELSE [M EXCEPT !.tags[tag] = splice(@, indexOf(@, e)),
                   !.ent[e].tags = spliceAtIndexOf(@, tag)]

queryTag(M, tag) ==
    IF tag \in DOMAIN M.tags THEN M
    ELSE [M EXCEPT !.tags = (tag :> <<>>) @@ @]

\* Entity.addTag with the manager reference still in place.
Entity_addTag_attached(M, e, tag) == entityAddTag(M, e, tag)

\* Entity.addTag: the facade needs its manager.
Entity_addTag(M, e, tag) ==
    IF ~M.ent[e].manager THEN raise(M) ELSE entityAddTag(M, e, tag)

\* Entity.removeTag: the facade needs its manager.
Entity_removeTag(M, e, tag) ==
    IF ~M.ent[e].manager THEN raise(M) ELSE entityRemoveTag(M, e, tag)

----------------------------------------------------------------------------
\* EntityManager: groups.

\* The key of an array's contents: lower-cased names, sorted, joined.
computeKey(Components) ==
    join(sort([n \in 1..Len(Components) |-> toLowerCase(getName(Components[n]))]), "-")

\* The cached key counts only when it is truthy: "" is looked up but not used.
cachedKey(M, a) ==
    IF a \in DOMAIN M.groupKeyMap /\ M.groupKeyMap[a] # ""
    THEN M.groupKeyMap[a] ELSE ""

\* _groupKey's return value.
groupKey(M, a) ==
    IF cachedKey(M, a) # "" THEN cachedKey(M, a) ELSE computeKey(arr[a])

\* _groupKey's effect on the cache.
groupKeyRemember(M, a) ==
    IF cachedKey(M, a) # "" THEN M
    ELSE [M EXCEPT !.groupKeyMap = (a :> computeKey(arr[a])) @@ @]

\* The scan of _indexGroup: the live entities holding all of the array's types,
\* in the order of the live list.
RECURSIVE backfill(_, _, _)
backfill(M, Components, n) ==
    IF n > Len(M.entities) THEN <<>>
    ELSE (IF hasAllComponents(M.ent[M.entities[n]], Components)
          THEN <<M.entities[n]>> ELSE <<>>)
         \o backfill(M, Components, n + 1)

indexGroup(M, a) ==
    LET key == groupKey(M, a)
        M1  == groupKeyRemember(M, a)
    IN  IF key \in DOMAIN M1.groups THEN M1
        ELSE [M1 EXCEPT !.groups =
                (key :> [Components |-> a, entities |-> backfill(M1, arr[a], 1)]) @@ @]

queryComponents(M, a) ==
    LET key == groupKey(M, a)
        M1  == groupKeyRemember(M, a)
    IN  IF key \in DOMAIN M1.groups THEN M1 ELSE indexGroup(M1, a)

\* The list queryComponents returns is the entities list of the group under
\* this key: the key names the list object.
queryComponentsList(M, a) == groupKey(M, a)

----------------------------------------------------------------------------
\* EntityManager: components.

\* The group loop of entityAddComponent, for one group.
addToGroup(M, g, e, component) ==
    IF indexOf(GroupComponents(g), component) = 0 THEN g
    ELSE IF ~hasAllComponents(M.ent[e], GroupComponents(g)) THEN g
    ELSE IF indexOf(g.entities, e) > 0 THEN g
    ELSE [g EXCEPT !.entities = Append(@, e)]

\* entityAddComponent without the early return for an attached type.
entityAddComponent_again(M, e, component, ctorThrows) ==
    LET M1 == [M EXCEPT !.ent[e].Components = Append(@, component)]
    IN  IF componentPropertyNameThrows(component) THEN raise(M1)
        ELSE IF ctorThrows THEN raise(M1)
        ELSE
          LET cName == componentPropertyName(component, options.camelCase)
              M2 == [M1 EXCEPT !.ent[e].props = @ \cup {cName}]
              M3 == [M2 EXCEPT !.groups =
                       [k \in DOMAIN @ |-> addToGroup(M2, @[k], e, component)]]
          IN  emit(M3, e, "component added", component)

\* ctorThrows: whether `new component(entity, ...args)` throws for these args.
entityAddComponent(M, e, component, ctorThrows) ==
    IF indexOf(M.ent[e].Components, component) > 0 THEN M
    ELSE
      LET M1 == [M EXCEPT !.ent[e].Components = Append(@, component)]
      IN  IF componentPropertyNameThrows(component) THEN raise(M1)
          ELSE IF ctorThrows THEN raise(M1)
          ELSE
            LET cName == componentPropertyName(component, options.camelCase)
                M2 == [M1 EXCEPT !.ent[e].props = @ \cup {cName}]
                M3 == [M2 EXCEPT !.groups =
                         [k \in DOMAIN @ |-> addToGroup(M2, @[k], e, component)]]
            IN  emit(M3, e, "component added", component)

\* Entity.addComponent: the facade needs its manager.
Entity_addComponent(M, e, TComponent, ctorThrows) ==
    IF ~M.ent[e].manager THEN raise(M)
    ELSE entityAddComponent(M, e, TComponent, ctorThrows)

\* The group loop of entityRemoveComponent, for one group.
removeFromGroup(M, g, e, Component) ==
    IF indexOf(GroupComponents(g), Component) = 0 THEN g
    ELSE IF ~hasAllComponents(M.ent[e], GroupComponents(g)) THEN g
    ELSE IF indexOf(g.entities, e) > 0
         THEN [g EXCEPT !.entities = splice(@, indexOf(@, e))]
    ELSE g

entityRemoveComponent(M, e, Component) ==
    LET index == indexOf(M.ent[e].Components, Component) IN
    IF index = 0 THEN M
    ELSE
      LET M1 == emit(M, e, "component removed", Component)
          M2 == [M1 EXCEPT !.groups =
                   [k \in DOMAIN @ |-> removeFromGroup(M1, @[k], e, Component)]]
      IN  IF componentPropertyNameThrows(Component) THEN raise(M2)
          ELSE [M2 EXCEPT
                  !.ent[e].Components = splice(@, index),
                  !.ent[e].props =
                      @ \ {componentPropertyName(Component, options.camelCase)}]

\* Entity.removeComponent: the facade needs its manager.
Entity_removeComponent(M, e, TComponent) ==
    IF ~M.ent[e].manager THEN raise(M)
    ELSE entityRemoveComponent(M, e, TComponent)

\* The loop of entityRemoveAllComponents from index i down; the list is read
\* again at every iteration.
RECURSIVE removeAllComponentsFrom(_, _, _)
removeAllComponentsFrom(M, e, i) ==
    IF M.raised \/ i < 1 THEN M
    ELSE IF i > Len(M.ent[e].Components)
         THEN removeAllComponentsFrom(M, e, i - 1)
    ELSE removeAllComponentsFrom(
             Entity_removeComponent(M, e, M.ent[e].Components[i]), e, i - 1)

entityRemoveAllComponents(M, e) ==
    removeAllComponentsFrom(M, e, Len(M.ent[e].Components))

\* Entity.removeAllComponents: the facade needs its manager.
Entity_removeAllComponents(M, e) ==
    IF ~M.ent[e].manager THEN raise(M) ELSE entityRemoveAllComponents(M, e)

----------------------------------------------------------------------------
\* EntityManager: entities and the pool.

\* reuse-pool get(): a recycled object when there is one, else the factory's.
\* poolPick is the recycled object handed out.
poolGetEntity(M, poolPick) ==
    IF M.pool # <<>> THEN poolPick ELSE Len(M.ent) + 1

\* reuse-pool get() with a factory that does not advance the id counter.
poolGet_sameId(M, poolPick) ==
    IF M.pool # <<>>
    THEN [M EXCEPT !.pool = splice(@, indexOf(@, poolPick))]
    ELSE [M EXCEPT !.ent = Append(@, NewEntity(M.nextId))]

poolGet(M, poolPick) ==
    IF M.pool # <<>>
    THEN [M EXCEPT !.pool = splice(@, indexOf(@, poolPick))]
    ELSE [M EXCEPT !.ent = Append(@, NewEntity(M.nextId)),
                   !.nextId = @ + 1]

poolRecycle(M, e) == [M EXCEPT !.pool = Append(@, e)]

createEntity(M, poolPick) ==
    LET entity == poolGetEntity(M, poolPick)
        M1 == poolGet(M, poolPick)
    IN  [M1 EXCEPT !.entities = Append(@, entity),
                   !.ent[entity].manager = TRUE]

\* The tag loop of removeEntity left out.
dropFromTagList_kept(list, e) == list

\* The tag loop of removeEntity, for one tag list.
dropFromTagList(list, e) ==
    IF indexOf(list, e) > 0 THEN splice(list, indexOf(list, e)) ELSE list

\* removeEntity without the throw for an entity that is not in the live list:
\* splice(-1, 1) then removes the last live entity.
removeEntity_unchecked(M, e) ==
    LET M1 == entityRemoveAllComponents(M, e) IN
    IF M1.raised THEN M1
    ELSE
      LET M2 == [M1 EXCEPT
                   !.entities = spliceAtIndexOf(@, e),
                   !.ent[e].tags = <<>>,
                   !.tags = [t \in DOMAIN @ |-> dropFromTagList(@[t], e)],
                   !.ent[e].manager = FALSE]
          M3 == poolRecycle(M2, e)
      IN  [M3 EXCEPT !.ent[e].listeners = FALSE]

\* removeEntity without the final removeAllListeners.
removeEntity_listening(M, e) ==
    LET index == indexOf(M.entities, e) IN
    IF index = 0 THEN raise(M)
    ELSE
      LET M1 == entityRemoveAllComponents(M, e) IN
      IF M1.raised THEN M1
      ELSE
        LET M2 == [M1 EXCEPT
                     !.entities = splice(@, index),
                     !.ent[e].tags = <<>>,
                     !.tags = [t \in DOMAIN @ |-> dropFromTagList(@[t], e)],
                     !.ent[e].manager = FALSE]
        IN  poolRecycle(M2, e)

removeEntity(M, e) ==
    LET index == indexOf(M.entities, e) IN
    IF index = 0 THEN raise(M)
    ELSE
      LET M1 == entityRemoveAllComponents(M, e) IN
      IF M1.raised THEN M1
      ELSE
        LET M2 == [M1 EXCEPT
                     !.entities = splice(@, index),
                     !.ent[e].tags = <<>>,
                     !.tags = [t \in DOMAIN @ |-> dropFromTagList(@[t], e)],
                     !.ent[e].manager = FALSE]
            M3 == poolRecycle(M2, e)
        IN  [M3 EXCEPT !.ent[e].listeners = FALSE]

\* Entity.remove: the facade needs its manager.
Entity_remove(M, e) ==
    IF ~M.ent[e].manager THEN raise(M) ELSE removeEntity(M, e)

\* The loop of removeEntitiesByTag from index x down over the live tag list.
RECURSIVE removeByTagFrom(_, _, _)
removeByTagFrom(M, tag, x) ==
    IF M.raised \/ x < 1 THEN M
    ELSE IF x > Len(M.tags[tag]) THEN raise(M)
    ELSE removeByTagFrom(Entity_remove(M, M.tags[tag][x]), tag, x - 1)

removeEntitiesByTag(M, tag) ==
    IF tag \notin DOMAIN M.tags THEN M
    ELSE removeByTagFrom(M, tag, Len(M.tags[tag]))

\* The loop of removeAllEntities from index x down over the live list.
RECURSIVE removeAllFrom(_, _)
removeAllFrom(M, x) ==
    IF M.raised \/ x < 1 THEN M
    ELSE IF x > Len(M.entities) THEN raise(M)
    ELSE removeAllFrom(Entity_remove(M, M.entities[x]), x - 1)

removeAllEntities(M) == removeAllFrom(M, Len(M.entities))

count(M) == Len(M.entities)

----------------------------------------------------------------------------
\* The calls.

\* The fields of a manager after construction.
NewManager ==
    [entities |-> <<>>, tags |-> <<>>, groups |-> <<>>, groupKeyMap |-> <<>>,
     pool |-> <<>>]

Constructed == 1..Len(ent)
Live == Range(entities)

\* The state after a call that ended in state R.  A call that raised leaves
\* what it had written before the throw.
Commit(R) ==
    /\ nextId' = R.nextId
    /\ ent' = R.ent
    /\ entities' = R.entities
    /\ tags' = R.tags
    /\ groups' = R.groups
    /\ groupKeyMap' = R.groupKeyMap
    /\ pool' = R.pool
    /\ UNCHANGED <<options, arr, app, notes, second>>

Init ==
    /\ nextId = 0
    /\ ent = <<>>
    /\ entities = <<>>
    /\ tags = <<>>
    /\ groups = <<>>
    /\ groupKeyMap = <<>>
    /\ pool = <<>>
    /\ options = [camelCase |-> TRUE]
    /\ arr = ArrayLiterals
    /\ app \in Apps
    /\ notes = <<>>
    /\ second = NewManager

CreateEntity ==
    /\ pool # <<>> \/ Len(ent) < MaxInst
    /\ \E poolPick \in (IF pool # <<>> THEN Range(pool) ELSE {0}) :
          Commit(createEntity(Here, poolPick))

RemoveEntity ==
    \E e \in Constructed : Commit(removeEntity(Here, e))

EntityAddTag ==
    \E e \in Live, tag \in app.tags : Commit(entityAddTag(Here, e, tag))

EntityRemoveTag ==
    \E e \in Live, tag \in app.tags : Commit(entityRemoveTag(Here, e, tag))

EntityAddComponent ==
    \E e \in Live, component \in app.types, ctorThrows \in app.throws :
        Commit(entityAddComponent(Here, e, component, ctorThrows))

EntityRemoveComponent ==
    \E e \in Live, Component \in app.types :
        Commit(entityRemoveComponent(Here, e, Component))

EntityRemoveAllComponents ==
    \E e \in Live : Commit(entityRemoveAllComponents(Here, e))

QueryComponents ==
    \E a \in app.arrays :
        /\ \/ groupKey(Here, a) \in DOMAIN groups
           \/ Cardinality(DOMAIN groups) < MaxGroups
        /\ Commit(queryComponents(Here, a))

QueryTag ==
    \E tag \in app.tags : Commit(queryTag(Here, tag))

RemoveEntitiesByTag ==
    \E tag \in app.tags : Commit(removeEntitiesByTag(Here, tag))

RemoveAllEntities ==
    Commit(removeAllEntities(Here))

Next ==
    \/ CreateEntity
    \/ RemoveEntity
    \/ EntityAddTag
    \/ EntityRemoveTag
    \/ EntityAddComponent
    \/ EntityRemoveComponent
    \/ EntityRemoveAllComponents
    \/ QueryComponents
    \/ QueryTag
    \/ RemoveEntitiesByTag
    \/ RemoveAllEntities

Spec == Init /\ [][Next]_vars

----------------------------------------------------------------------------
\* The calls that notify, with the last notification of every entity and
\* component type remembered.

lastNote(e, C) ==
    IF <<e, C>> \in DOMAIN notes THEN notes[<<e, C>>] ELSE "none"

\* notes after the notifications of one call, in the order they were emitted.
RECURSIVE noted(_, _)
noted(n, events) ==
    IF events = <<>> THEN n
    ELSE LET k == <<Head(events).entity, Head(events).component>>
         IN  noted([x \in DOMAIN n \cup {k} |->
                       IF x = k THEN Head(events).kind ELSE n[x]],
                   Tail(events))

CommitNoted(R) ==
    /\ nextId' = R.nextId
    /\ ent' = R.ent
    /\ entities' = R.entities
    /\ tags' = R.tags
    /\ groups' = R.groups
    /\ groupKeyMap' = R.groupKeyMap
    /\ pool' = R.pool
    /\ notes' = noted(notes, R.events)
    /\ UNCHANGED <<options, arr, app, second>>

CreateEntityNoted ==
    /\ pool # <<>> \/ Len(ent) < MaxInst
    /\ \E poolPick \in (IF pool # <<>> THEN Range(pool) ELSE {0}) :
          CommitNoted(createEntity(Here, poolPick))

RemoveEntityNoted ==
    \E e \in Live : CommitNoted(removeEntity(Here, e))

EntityAddComponentNoted ==
    \E e \in Live, component \in app.types, ctorThrows \in app.throws :
        CommitNoted(entityAddComponent(Here, e, component, ctorThrows))

EntityRemoveComponentNoted ==
    \E e \in Live, Component \in app.types :
        CommitNoted(entityRemoveComponent(Here, e, Component))

EntityRemoveAllComponentsNoted ==
    \E e \in Live : CommitNoted(entityRemoveAllComponents(Here, e))

NextNoted ==
    \/ CreateEntityNoted
    \/ RemoveEntityNoted
    \/ EntityAddComponentNoted
    \/ EntityRemoveComponentNoted
    \/ EntityRemoveAllComponentsNoted

SpecNoted == Init /\ [][NextNoted]_vars

----------------------------------------------------------------------------
\* The calls together with applications that subscribe to an entity's
\* notifications.  Listeners do not call back into the manager.

\* entity.on(...): the entity has a subscriber from now on.
EntityOn ==
    /\ \E e \in Live :
          /\ ~ent[e].listeners
          /\ ent' = [ent EXCEPT ![e].listeners = TRUE]
    /\ UNCHANGED <<nextId, entities, tags, groups, groupKeyMap, pool,
                   options, arr, app, notes, second>>

NextListen ==
    \/ Next
    \/ EntityOn

SpecListen == Init /\ [][NextListen]_vars

----------------------------------------------------------------------------
\* The calls together with applications that change the contents of an array
\* they query with and pass the same array again.

\* The caller overwrites the contents of array a with those of literal b.
MutateArray ==
    /\ \E a \in app.arrays, b \in app.arrays :
          /\ arr[a] # ArrayLiterals[b]
          /\ arr' = [arr EXCEPT ![a] = ArrayLiterals[b]]
    /\ UNCHANGED <<nextId, ent, entities, tags, groups, groupKeyMap, pool,
                   options, app, notes, second>>

\* The application that attaches one component type and queries with the
\* first two arrays.
InitArrays == Init /\ app.arrays = {1, 2} /\ app.throws = {FALSE}

NextArrays ==
    \/ CreateEntity
    \/ RemoveEntity
    \/ EntityAddComponent
    \/ EntityRemoveComponent
    \/ QueryComponents
    \/ MutateArray

SpecArrays == InitArrays /\ [][NextArrays]_vars

----------------------------------------------------------------------------
\* The calls with listeners that call back into the manager while they are
\* being notified.  A listener is subscribed with once: it is unsubscribed
\* when its notification is emitted, and then makes one call on its own
\* entity through the facade.  A call that raises inside the listener
\* raises out of emit into the call that emitted.

\* Array.prototype.splice(i, 1) with an index computed earlier: nothing is
\* removed when the index is past the end.
spliceAt(s, i) == IF i > Len(s) THEN s ELSE splice(s, i)

\* What a listener can do when it is notified.
Reactions ==
    {[call |-> "none", arg |-> ""], [call |-> "remove", arg |-> ""]}
    \cup {[call |-> c, arg |-> T] : c \in {"addComponent", "removeComponent"},
                                   T \in {"Position", "HitBox"}}

\* The listeners of e run, after the notification has been recorded.
react(M, e, reaction) ==
    IF ~M.ent[e].listeners \/ reaction.call = "none" THEN M
    ELSE
      LET M0 == [M EXCEPT !.ent[e].listeners = FALSE] IN
      IF reaction.call = "addComponent"
      THEN Entity_addComponent(M0, e, reaction.arg, FALSE)
      ELSE IF reaction.call = "removeComponent"
      THEN Entity_removeComponent(M0, e, reaction.arg)
      ELSE Entity_remove(M0, e)

\* entityAddComponent with the listeners running inside emit.
entityAddComponentRe(M, e, component, ctorThrows, reaction) ==
    LET R == entityAddComponent(M, e, component, ctorThrows) IN
    IF R.raised \/ Len(R.events) = Len(M.events) THEN R
    ELSE react(R, e, reaction)

\* entityRemoveComponent with the listeners running inside emit: index was
\* read before the notification and is used after it.
entityRemoveComponentRe(M, e, Component, reaction) ==
    LET index == indexOf(M.ent[e].Components, Component) IN
    IF index = 0 THEN M
    ELSE
      LET M1 == react(emit(M, e, "component removed", Component), e, reaction)
          M2 == [M1 EXCEPT !.groups =
                   [k \in DOMAIN @ |-> removeFromGroup(M1, @[k], e, Component)]]
      IN  IF M1.raised THEN M1
          ELSE IF componentPropertyNameThrows(Component) THEN raise(M2)
          ELSE [M2 EXCEPT
                  !.ent[e].Components = spliceAt(@, index),
                  !.ent[e].props =
                      @ \ {componentPropertyName(Component, options.camelCase)}]

Entity_removeComponentRe(M, e, TComponent, reaction) ==
    IF ~M.ent[e].manager THEN raise(M)
    ELSE entityRemoveComponentRe(M, e, TComponent, reaction)

\* The loop of entityRemoveAllComponents from index i down.  components[i]
\* is undefined when the list has become shorter than i: the facade then
\* still needs its manager, and the manager finds nothing to remove.
RECURSIVE removeAllComponentsFromRe(_, _, _, _)
removeAllComponentsFromRe(M, e, i, reaction) ==
    IF M.raised \/ i < 1 THEN M
    ELSE IF i > Len(M.ent[e].Components)
         THEN IF ~M.ent[e].manager THEN raise(M)
              ELSE removeAllComponentsFromRe(M, e, i - 1, reaction)
    ELSE removeAllComponentsFromRe(
             Entity_removeComponentRe(M, e, M.ent[e].Components[i], reaction),
             e, i - 1, reaction)

entityRemoveAllComponentsRe(M, e, reaction) ==
    removeAllComponentsFromRe(M, e, Len(M.ent[e].Components), reaction)

\* removeEntity with the listeners running inside emit: index was read
\* before the notifications and is used after them.
removeEntityRe(M, e, reaction) ==
    LET index == indexOf(M.entities, e) IN
    IF index = 0 THEN raise(M)
    ELSE
      LET M1 == entityRemoveAllComponentsRe(M, e, reaction) IN
      IF M1.raised THEN M1
      ELSE
        LET M2 == [M1 EXCEPT
                     !.entities = spliceAt(@, index),
                     !.ent[e].tags = <<>>,
                     !.tags = [t \in DOMAIN @ |-> dropFromTagList(@[t], e)],
                     !.ent[e].manager = FALSE]
            M3 == poolRecycle(M2, e)
        IN  [M3 EXCEPT !.ent[e].listeners = FALSE]

Entity_removeRe(M, e, reaction) ==
    IF ~M.ent[e].manager THEN raise(M) ELSE removeEntityRe(M, e, reaction)

\* The loop of removeAllEntities from index x down over the live list.
RECURSIVE removeAllFromRe(_, _, _)
removeAllFromRe(M, x, reaction) ==
    IF M.raised \/ x < 1 THEN M
    ELSE IF x > Len(M.entities) THEN raise(M)
    ELSE removeAllFromRe(Entity_removeRe(M, M.entities[x], reaction),
                         x - 1, reaction)

removeAllEntitiesRe(M, reaction) ==
    removeAllFromRe(M, Len(M.entities), reaction)

\* The application with re-entrant listeners: two named component types, no
\* throwing constructor, queries for non-empty sets.
ReentrantApp ==
    [types |-> {"Position", "HitBox"}, tags |-> {"player"},
     arrays |-> {2, 4}, throws |-> {FALSE}]

InitReentrant ==
    /\ nextId = 0
    /\ ent = <<>>
    /\ entities = <<>>
    /\ tags = <<>>
    /\ groups = <<>>
    /\ groupKeyMap = <<>>
    /\ pool = <<>>
    /\ options = [camelCase |-> TRUE]
    /\ arr = ArrayLiterals
    /\ app = ReentrantApp
    /\ notes = <<>>
    /\ second = NewManager

\* entity.once(...): the entity has a subscriber until it is next notified.
EntityOnce ==
    /\ \E e \in Live :
          /\ ~ent[e].listeners
          /\ ent' = [ent EXCEPT ![e].listeners = TRUE]
    /\ UNCHANGED <<nextId, entities, tags, groups, groupKeyMap, pool,
                   options, arr, app, notes, second>>

CreateEntityReentrant ==
    /\ pool # <<>> \/ Len(ent) < MaxReentrant
    /\ \E poolPick \in (IF pool # <<>> THEN Range(pool) ELSE {0}) :
          Commit(createEntity(Here, poolPick))

EntityAddComponentReentrant ==
    \E e \in Live, component \in app.types, reaction \in Reactions :
        Commit(entityAddComponentRe(Here, e, component, FALSE, reaction))

EntityRemoveComponentReentrant ==
    \E e \in Live, Component \in app.types, reaction \in Reactions :
        Commit(entityRemoveComponentRe(Here, e, Component, reaction))

\* A listener that removes its entity gets the entity recycled twice; the
\* removals stop when the live list and the pool together hold more than
\* MaxInst entries.
RemoveEntityReentrant ==
    /\ Len(pool) + Len(entities) <= MaxInst
    /\ \E e \in Live, reaction \in Reactions :
          Commit(removeEntityRe(Here, e, reaction))

RemoveAllEntitiesReentrant ==
    /\ Len(pool) + Len(entities) <= MaxInst
    /\ \E reaction \in Reactions : Commit(removeAllEntitiesRe(Here, reaction))

NextReentrant ==
    \/ CreateEntityReentrant
    \/ EntityOnce
    \/ EntityAddComponentReentrant
    \/ EntityRemoveComponentReentrant
    \/ RemoveEntityReentrant
    \/ RemoveAllEntitiesReentrant
    \/ QueryComponents

SpecReentrant == InitReentrant /\ [][NextReentrant]_vars

----------------------------------------------------------------------------
\* Two managers of one process: each has its own lists and its own pool;
\* the Entity objects and Entity.js's id counter are the process's.

\* The second manager's state as one record.
There ==
    [nextId |-> nextId, ent |-> ent, entities |-> second.entities,
     tags |-> second.tags, groups |-> second.groups,
     groupKeyMap |-> second.groupKeyMap, pool |-> second.pool,
     events |-> <<>>, raised |-> FALSE]

\* The state after a call on the second manager that ended in state R.
CommitThere(R) ==
    /\ nextId' = R.nextId
    /\ ent' = R.ent
    /\ second' = [entities |-> R.entities, tags |-> R.tags,
                  groups |-> R.groups, groupKeyMap |-> R.groupKeyMap,
                  pool |-> R.pool]
    /\ UNCHANGED <<entities, tags, groups, groupKeyMap, pool, options, arr,
                   app, notes>>

\* The application that drives both managers.
InitManagers == Init /\ app.types = {"Position"}

CreateEntityHere ==
    /\ pool # <<>> \/ Len(ent) < MaxShared
    /\ \E poolPick \in (IF pool # <<>> THEN Range(pool) ELSE {0}) :
          Commit(createEntity(Here, poolPick))

CreateEntityThere ==
    /\ second.pool # <<>> \/ Len(ent) < MaxShared
    /\ \E poolPick \in (IF second.pool # <<>> THEN Range(second.pool) ELSE {0}) :
          CommitThere(createEntity(There, poolPick))

RemoveEntityThere ==
    \E e \in Constructed : CommitThere(removeEntity(There, e))

NextManagers ==
    \/ CreateEntityHere
    \/ RemoveEntity
    \/ CreateEntityThere
    \/ RemoveEntityThere

SpecManagers == InitManagers /\ [][NextManagers]_vars

----------------------------------------------------------------------------
\* What a call returns or does from the current state.

\* The list queryComponents(arr[a]) returns when called now.
QueryComponentsAnswer(a) ==
    queryComponents(Here, a).groups[queryComponentsList(Here, a)].entities

\* The list queryTag(tag) returns when called now.
QueryTagAnswer(M, tag) == queryTag(M, tag).tags[tag]

NoDuplicates(s) == \A i, j \in 1..Len(s) : s[i] = s[j] => i = j

\* The live entities whose attached component types include all of S.
Matching(S) == {e \in Live : S \subseteq Range(ent[e].Components)}

\* The groups of M that list e.
GroupsListing(M, e) == {k \in DOMAIN M.groups : e \in Range(M.groups[k].entities)}

\* The tag lists of M that list e.
TagListsListing(M, e) == {t \in DOMAIN M.tags : e \in Range(M.tags[t])}

----------------------------------------------------------------------------
\* C1: in every reachable state and for every array the application queries
\* with (the empty one included), queryComponents returns exactly the live
\* entities whose attached types are a superset of the array's types, each once.
C1_QueryReturnsExactlyTheMatchingEntities ==
    \A a \in app.arrays :
        /\ Range(QueryComponentsAnswer(a)) = Matching(Range(arr[a]))
        /\ NoDuplicates(QueryComponentsAnswer(a))

\* C3: whenever removeEntity(e) returns without raising, e is in no list of
\* the manager (live list, tag lists, the list of every group that exists),
\* its own lists are empty and its manager reference is null.
C3_RemovedEntityIsReferencedNowhere ==
    \A e \in Constructed :
        LET R == removeEntity(Here, e) IN
        ~R.raised =>
            /\ e \notin Range(R.entities)
            /\ TagListsListing(R, e) = {}
            /\ GroupsListing(R, e) = {}
            /\ R.ent[e].Components = <<>>
            /\ R.ent[e].tags = <<>>
            /\ ~R.ent[e].manager

\* C4: the entity createEntity returns has an id greater than every id the
\* counter has issued before the call, whether it is new or recycled.
C4_CreatedEntityHasAFreshId ==
    (pool # <<>> \/ Len(ent) < MaxInst) =>
        \A poolPick \in (IF pool # <<>> THEN Range(pool) ELSE {0}) :
            LET R == createEntity(Here, poolPick)
                e == poolGetEntity(Here, poolPick)
            IN  \A issued \in 0..(nextId - 1) : R.ent[e].id > issued

\* What C5 says a raising call leaves as it was: the entities' lists and
\* properties, the groups, the tag lists and the live list.
Untouched(R) ==
    /\ R.ent = ent
    /\ R.groups = groups
    /\ R.tags = tags
    /\ R.entities = entities

\* C5: a manager call that raises leaves the entity's component types and
\* properties, every group list, every tag list and the live list as they
\* were before the call.
C5_RaisingCallChangesNothing ==
    /\ \A e \in Live, component \in app.types, ctorThrows \in app.throws :
          LET R == entityAddComponent(Here, e, component, ctorThrows) IN
          R.raised => Untouched(R)
    /\ \A e \in Live, Component \in app.types :
          LET R == entityRemoveComponent(Here, e, Component) IN
          R.raised => Untouched(R)
    /\ \A e \in Live :
          LET R == entityRemoveAllComponents(Here, e) IN
          R.raised => Untouched(R)
    /\ \A e \in Constructed :
          LET R == removeEntity(Here, e) IN
          R.raised => Untouched(R)
    /\ \A tag \in app.tags :
          LET R == removeEntitiesByTag(Here, tag) IN
          R.raised => Untouched(R)
    /\ LET R == removeAllEntities(Here) IN R.raised => Untouched(R)

\* C10: removeEntitiesByTag(tag) removes exactly the entities holding the tag:
\* afterwards queryTag(tag) is empty, count() is lower by the number of
\* holders, and every other live entity is still live with its tags,
\* components and group memberships as before.
C10_RemoveByTagRemovesExactlyTheHolders ==
    \A tag \in app.tags :
        LET R == removeEntitiesByTag(Here, tag)
            holders == {e \in Live : hasTag(ent[e], tag)}
        IN  /\ QueryTagAnswer(R, tag) = <<>>
            /\ count(R) = count(Here) - Cardinality(holders)
            /\ \A e \in Live \ holders :
                  /\ e \in Range(R.entities)
                  /\ R.ent[e] = ent[e]
                  /\ GroupsListing(R, e) = GroupsListing(Here, e)

----------------------------------------------------------------------------
\* C2: in every reachable state, a tag is in an entity's own tag list exactly
\* when the entity is in the manager's list for that tag.
C2_TagListsAgree ==
    \A e \in Constructed, tag \in Tags :
        hasTag(ent[e], tag) <=> (tag \in DOMAIN tags /\ e \in Range(tags[tag]))

\* Two entities are live, one holding two tags and the other one of them, so
\* that one tag list has two entries and the other one.
C2_Witness ==
    /\ Len(entities) = 2
    /\ \E e \in Live : Len(ent[e].tags) = 2
    /\ \E tag \in DOMAIN tags : Len(tags[tag]) = 2
    /\ \E tag \in DOMAIN tags : Len(tags[tag]) = 1

\* Two arrays holding the same types in another order.
RECURSIVE occurrences(_, _)
occurrences(s, x) ==
    IF s = <<>> THEN 0
    ELSE (IF Head(s) = x THEN 1 ELSE 0) + occurrences(Tail(s), x)

Reordered(a, b) ==
    /\ arr[a] # arr[b]
    /\ \A x \in ComponentTypes : occurrences(arr[a], x) = occurrences(arr[b], x)

\* C6: for two arrays holding the same component types in different orders,
\* querying with one and then with the other returns the same list: the
\* second query finds the group of the first and creates none.
C6_QueryIgnoresTheOrderOfTheArray ==
    \A a, b \in ArrayIds :
        Reordered(a, b) =>
            LET Ra  == queryComponents(Here, a)
                Rab == queryComponents(Ra, b)
            IN  /\ queryComponentsList(Ra, b) = queryComponentsList(Here, a)
                /\ queryComponentsList(Ra, b) \in DOMAIN Ra.groups
                /\ Rab.groups = Ra.groups

\* Both orders of {Position, HitBox} have been queried with and their one
\* group lists an entity.
C6_Witness ==
    /\ \E a, b \in DOMAIN groupKeyMap : Reordered(a, b)
    /\ "hitbox-position" \in DOMAIN groups
    /\ groups["hitbox-position"].entities # <<>>

\* C7: entityAddTag for a tag the entity holds and entityAddComponent for a
\* type the entity lists change nothing: the tag lists, the group lists, the
\* entity's lists and properties stay as they are, nothing is emitted and
\* nothing is raised.
C7_AddingWhatIsPresentChangesNothing ==
    /\ \A e \in Live, tag \in Tags :
          hasTag(ent[e], tag) => entityAddTag(Here, e, tag) = Here
    /\ \A e \in Live, component \in ComponentTypes, ctorThrows \in BOOLEAN :
          hasComponent(ent[e], component) =>
              entityAddComponent(Here, e, component, ctorThrows) = Here

\* A live entity holds a tag and an attached type, and is listed by a group.
C7_Witness ==
    \E e \in Live :
        /\ ent[e].tags # <<>>
        /\ ent[e].props # {}
        /\ GroupsListing(Here, e) # {}
        /\ entityAddComponent(Here, e, ent[e].Components[1], FALSE).ent[e] = ent[e]

\* C8: entityRemoveTag for a tag the entity does not hold (a tag the manager
\* has never seen included) and entityRemoveComponent for a type the entity
\* does not list change nothing, emit nothing and raise nothing.
C8_RemovingWhatIsAbsentChangesNothing ==
    /\ \A e \in Live, tag \in Tags :
          ~hasTag(ent[e], tag) => entityRemoveTag(Here, e, tag) = Here
    /\ \A e \in Live, Component \in ComponentTypes :
          ~hasComponent(ent[e], Component) =>
              entityRemoveComponent(Here, e, Component) = Here

\* A live entity lacks a tag and a type that another live entity holds, with
\* a group listing that other entity.
C8_Witness ==
    \E e, other \in Live :
        /\ e # other
        /\ \E tag \in DOMAIN tags :
              ~hasTag(ent[e], tag) /\ hasTag(ent[other], tag)
        /\ \E Component \in ComponentTypes :
              /\ ~hasComponent(ent[e], Component)
              /\ hasComponent(ent[other], Component)
              /\ entityRemoveComponent(Here, e, Component).groups = groups
        /\ GroupsListing(Here, other) # {}

\* C9: removeEntity for an entity that is not in the live list raises and
\* changes nothing: live list, tag lists, groups, pool and entities are as
\* before, so the entity is not recycled a second time.
C9_RemovingAnUntrackedEntityRaises ==
    \A e \in Constructed :
        e \notin Live => removeEntity(Here, e) = raise(Here)

\* An entity sits in the pool after its removal while another one is live,
\* tagged and listed by a group; removing the pooled one again raises.
C9_Witness ==
    /\ pool # <<>>
    /\ \E e \in Live : ent[e].tags # <<>> /\ GroupsListing(Here, e) # {}
    /\ removeEntity(Here, pool[1]).raised

----------------------------------------------------------------------------
\* The state a caller continues from after a call, whether it returned or
\* raised.
Returned(R) == [R EXCEPT !.raised = FALSE]

\* The kinds of the notifications of entity e about component type C.
RECURSIVE KindsFor(_, _, _)
KindsFor(events, e, C) ==
    IF events = <<>> THEN <<>>
    ELSE IF Head(events).entity = e /\ Head(events).component = C
         THEN <<Head(events).kind>> \o KindsFor(Tail(events), e, C)
    ELSE KindsFor(Tail(events), e, C)

\* kinds continues an alternation that starts with "component added" and
\* whose last notification so far was prev.
Alternates(prev, kinds) ==
    \A i \in 1..Len(kinds) :
        kinds[i] = IF (IF i = 1 THEN prev ELSE kinds[i - 1]) = "component added"
                   THEN "component removed"
                   ELSE "component added"

\* C11: for one entity and one component type C the notifications about C
\* alternate between "component added" and "component removed", starting with
\* "component added", with exactly one notification for a call that changed
\* whether C is attached and none for a call that did not; attaching C where
\* it was absent and detaching it at once gives one of each, in that order,
\* and leaves no property for C.
C11_NotificationsAlternate ==
    \A e \in Live, C \in app.types, ctorThrows \in app.throws :
        LET A == entityAddComponent(Here, e, C, ctorThrows)
            D == entityRemoveComponent(Here, e, C)
            AD == entityRemoveComponent(Returned(A), e, C)
            changed(R) == hasComponent(R.ent[e], C) # hasComponent(ent[e], C)
        IN  /\ Alternates(lastNote(e, C), KindsFor(A.events, e, C))
            /\ Alternates(lastNote(e, C), KindsFor(D.events, e, C))
            /\ Len(A.events) = IF changed(A) THEN 1 ELSE 0
            /\ Len(D.events) = IF changed(D) THEN 1 ELSE 0
            /\ ~hasComponent(ent[e], C) =>
                  /\ KindsFor(AD.events, e, C)
                         = <<"component added", "component removed">>
                  /\ ~hasComponent(AD.ent[e], C)
                  /\ AD.ent[e].props = ent[e].props

----------------------------------------------------------------------------
\* C12: a list that a query has returned stays the list of its tag or of its
\* component set: a later query for the same tag or set returns that list
\* and makes no other, and the list holds what the calls made since have
\* left: exactly the live entities carrying the tag, exactly the live
\* entities listing every type of the set.
C12_QueryListsAreLiveAndStable ==
    /\ \A t \in DOMAIN tags :
          /\ queryTag(Here, t) = Here
          /\ Range(tags[t]) = {e \in Live : hasTag(ent[e], t)}
    /\ \A a \in app.arrays :
          queryComponentsList(Here, a) \in DOMAIN groups =>
              /\ queryComponents(Here, a).groups = groups
              /\ Range(groups[queryComponentsList(Here, a)].entities)
                     = Matching(Range(arr[a]))

----------------------------------------------------------------------------
----------------------------------------------------------------------------
\* C14: on a handle whose manager reference is cleared every facade call
\* (addComponent, removeComponent, removeAllComponents, addTag, removeTag,
\* remove) raises and changes nothing, neither in the manager nor in the
\* handle.
C14_DetachedHandleCallsChangeNothing ==
    \A e \in Constructed :
        ~ent[e].manager =>
            /\ \A T \in app.types, ctorThrows \in app.throws :
                  /\ Entity_addComponent(Here, e, T, ctorThrows) = raise(Here)
                  /\ Entity_removeComponent(Here, e, T) = raise(Here)
            /\ Entity_removeAllComponents(Here, e) = raise(Here)
            /\ \A tag \in app.tags :
                  /\ Entity_addTag(Here, e, tag) = raise(Here)
                  /\ Entity_removeTag(Here, e, tag) = raise(Here)
            /\ Entity_remove(Here, e) = raise(Here)

\* A removed handle next to a live entity that holds a tag and a component.
C14_Witness ==
    \E e \in Constructed, o \in Live :
        /\ ~ent[e].manager
        /\ e \notin Live
        /\ ent[o].tags # <<>>
        /\ ent[o].props # {}
        /\ \A tag \in app.tags : Entity_addTag(Here, e, tag).raised

----------------------------------------------------------------------------
\* C15: removeAllEntities removes every entity that was live when it was
\* called, each exactly once; afterwards count() is 0 and every tag list is
\* empty.
C15_RemoveAllEntitiesRemovesEveryLiveEntity ==
    LET R == removeAllEntities(Here)
    IN  /\ \A e \in Live :
              /\ ~R.ent[e].manager
              /\ occurrences(R.pool, e) = occurrences(pool, e) + 1
        /\ count(R) = 0
        /\ \A t \in DOMAIN R.tags : R.tags[t] = <<>>

----------------------------------------------------------------------------
\* The groups whose component types the listed types cover.
Satisfied(M, Components) ==
    {k \in DOMAIN M.groups :
        Range(GroupComponents(M.groups[k])) \subseteq Range(Components)}

\* What was observed shows the instance of component type C on the entity.
Carries(seen, C) ==
    /\ ~componentPropertyNameThrows(C)
    /\ componentPropertyName(C, options.camelCase) \in seen.props

\* C16: when a listener is notified of "component removed" for C the entity
\* still lists C, still carries the instance and is still in every group it
\* matched; when it is notified of "component added" for C the entity
\* already lists C, carries the instance and is in every existing group it
\* now satisfies.
C16_NotificationsSeeTheComponentInPlace ==
    \A e \in Live, C \in app.types, ctorThrows \in app.throws :
        ent[e].listeners =>
            LET A == entityAddComponent(Here, e, C, ctorThrows)
                D == entityRemoveComponent(Here, e, C)
            IN  /\ \A i \in 1..Len(D.events) :
                      /\ D.events[i].kind = "component removed"
                      /\ hasComponent(D.events[i].seen, C)
                      /\ Carries(D.events[i].seen, C)
                      /\ Satisfied(Here, ent[e].Components)
                             \subseteq D.events[i].seen.groups
                /\ \A i \in 1..Len(A.events) :
                      /\ A.events[i].kind = "component added"
                      /\ hasComponent(A.events[i].seen, C)
                      /\ Carries(A.events[i].seen, C)
                      /\ Satisfied(A, A.events[i].seen.Components)
                             \subseteq A.events[i].seen.groups

----------------------------------------------------------------------------
\* The notifications of R are one "component removed" for every type entity
\* e listed, the last attached first, each seen with the subscribers still
\* in place and e still in the live list.
RemovedInReverse(R, e) ==
    /\ Len(R.events) = Len(ent[e].Components)
    /\ \A i \in 1..Len(R.events) :
          /\ R.events[i].kind = "component removed"
          /\ R.events[i].entity = e
          /\ R.events[i].component
                 = ent[e].Components[Len(ent[e].Components) + 1 - i]
          /\ R.events[i].seen.listeners
          /\ R.events[i].seen.live

\* C17: removeEntity(e) for an entity with k attached component types
\* delivers exactly k "component removed" notifications, one per type in
\* reverse order of attachment, all of them before the subscribers of e are
\* cleared and before e leaves the live list; entityRemoveAllComponents(e)
\* delivers the same notifications and leaves e with no listed type.
C17_RemovalNotifiesEveryComponentInReverse ==
    \A e \in Live :
        ent[e].listeners =>
            /\ RemovedInReverse(removeEntity(Here, e), e)
            /\ RemovedInReverse(entityRemoveAllComponents(Here, e), e)
            /\ entityRemoveAllComponents(Here, e).ent[e].Components = <<>>

----------------------------------------------------------------------------
\* The manager with nothing in its key cache.
Uncached(M) == [M EXCEPT !.groupKeyMap = <<>>]

\* C18: the key cache never changes what a query returns: with the cache as
\* it is, queryComponents returns the same list with the same contents as it
\* does with an empty cache, also for an array that was passed before and
\* whose contents the caller has changed since, and for the empty array.
C18_KeyCacheDoesNotChangeTheResult ==
    \A a \in app.arrays :
        /\ queryComponentsList(Here, a) = queryComponentsList(Uncached(Here), a)
        /\ queryComponents(Here, a).groups
               = queryComponents(Uncached(Here), a).groups

----------------------------------------------------------------------------
----------------------------------------------------------------------------
\* The property names of the component types an entity lists.
PropertyNames(Components) ==
    {componentPropertyName(C, options.camelCase) : C \in Range(Components)}

\* C20: also when listeners attach or detach components of their entity or
\* remove it while they are notified, every call ends with lists, properties
\* and groups in agreement: an entity is in a group's list exactly when it is
\* live and lists all of the group's types, it carries a property exactly for
\* the types it lists, and an entity that was removed lists no component
\* type and is in no group's list.
C20_CallsStayAtomicUnderReentrantListeners ==
    /\ \A k \in DOMAIN groups, e \in Constructed :
          e \in Range(groups[k].entities)
              <=> /\ e \in Live
                  /\ hasAllComponents(ent[e], GroupComponents(groups[k]))
    /\ \A e \in Constructed :
          ent[e].props = PropertyNames(ent[e].Components)
    /\ \A e \in Constructed \ Live :
          /\ ent[e].Components = <<>>
          /\ GroupsListing(Here, e) = {}

----------------------------------------------------------------------------
\* The entities that are live in either manager.
LiveAnywhere == Range(entities) \cup Range(second.entities)

\* C21: any two distinct entities that are live, in the same manager or in
\* different managers of the process, have different ids, whatever the
\* order of the createEntity and removeEntity calls on the managers and
\* whether the entities were constructed or served from a pool.
C21_LiveEntitiesHaveDifferentIds ==
    \A a, b \in LiveAnywhere :
        a # b => ent[a].id # ent[b].id

\* Both managers have a live entity, and the first manager's live list
\* holds an entity that was removed and served again from its pool after a
\* younger one was created.
C21_Witness ==
    /\ second.entities # <<>>
    /\ \E i, j \in 1..Len(entities) : i < j /\ entities[i] > entities[j]

====
